---- MODULE Spec2Model ----
(***************************************************************************)
(* Announcements and authentication routers of the school management API.  *)
(*                                                                         *)
(* Strings are sequences of one-character strings, so that formatting,    *)
(* parsing, replacement and Python's lexicographic comparison are         *)
(* computed character by character.  Python's None is the value None.     *)
(***************************************************************************)
EXTENDS Integers, Sequences, FiniteSets, TLC

VARIABLES
    announcements,  \* announcements_collection: ObjectId -> stored document
    nextId,         \* number of ObjectIds the driver has generated so far
    deleted,        \* history: ObjectIds removed by a successful delete_one
    last,           \* the last request served and its response (Spec)
    reqs,           \* the concurrent requests, by arrival (SpecConc)
    applied         \* history: requests in the order of their store call (SpecConc)

vars == <<announcements, nextId, deleted, last, reqs, applied>>

(***************************************************************************)
(* Bounds of the model.                                                    *)
(***************************************************************************)
\* insert_one is enabled while fewer than this many ObjectIds were generated
MaxAnnouncements == 2
\* value of the first ObjectId the driver generates
FirstOid == 10
\* number of requests of a concurrent run (SpecConc)
MaxRequests == 3

(***************************************************************************)
(* Characters and strings.                                                 *)
(***************************************************************************)
None == <<"None">>

Digits == <<"0", "1", "2", "3", "4", "5", "6", "7", "8", "9">>
HexLower == <<"a", "b", "c", "d", "e", "f">>
HexUpper == <<"A", "B", "C", "D", "E", "F">>

IsDigit(c) == \E i \in 1..10 : Digits[i] = c
DigitVal(c) == (CHOOSE i \in 1..10 : Digits[i] = c) - 1

Range(s) == {s[i] : i \in 1..Len(s)}

\* code point of a character (the ones date strings are made of)
Ord(c) ==
    IF IsDigit(c) THEN 48 + DigitVal(c)
    ELSE CASE c = "-" -> 45
           [] c = "/" -> 47
           [] c = ":" -> 58
           [] c = "T" -> 84

\* Python str < str: by code point at the first difference, a proper prefix first
StrLt(s, t) ==
    LET n == IF Len(s) < Len(t) THEN Len(s) ELSE Len(t)
        diff == {i \in 1..n : s[i] # t[i]}
    IN  IF diff = {} THEN Len(s) < Len(t)
        ELSE LET k == CHOOSE i \in diff : \A j \in diff : i <= j
             IN  Ord(s[k]) < Ord(t[k])

StrGt(s, t) == StrLt(t, s)
StrLe(s, t) == ~StrLt(t, s)
StrGe(s, t) == ~StrLt(s, t)

\* truth value of an Optional[str]: None and "" are false
Truthy(s) == s # None /\ s # <<>>

(***************************************************************************)
(* Dates.                                                                  *)
(***************************************************************************)
\* value of a run of decimal digits
RECURSIVE DecVal(_)
DecVal(s) ==
    IF s = <<>> THEN 0
    ELSE 10 * DecVal(SubSeq(s, 1, Len(s) - 1)) + DigitVal(s[Len(s)])

AllDigits(s) == \A i \in 1..Len(s) : IsDigit(s[i])

IsLeap(y) == (y % 4 = 0 /\ y % 100 # 0) \/ y % 400 = 0

DaysInMonth(y, m) ==
    IF m = 2 THEN (IF IsLeap(y) THEN 29 ELSE 28)
    ELSE IF m \in {4, 6, 9, 11} THEN 30 ELSE 31

\* the calendar date part YYYY-MM-DD
IsIsoDate(s) ==
    /\ Len(s) = 10
    /\ s[5] = "-" /\ s[8] = "-"
    /\ AllDigits(SubSeq(s, 1, 4)) /\ AllDigits(SubSeq(s, 6, 7))
    /\ AllDigits(SubSeq(s, 9, 10))
    /\ LET y == DecVal(SubSeq(s, 1, 4))
           m == DecVal(SubSeq(s, 6, 7))
           d == DecVal(SubSeq(s, 9, 10))
       IN  /\ y >= 1
           /\ m \in 1..12
           /\ d \in 1..DaysInMonth(y, m)

\* the time part HH[:MM[:SS]] that may follow the date and one separator
IsIsoTime(s) ==
    /\ Len(s) \in {2, 5, 8}
    /\ \A i \in 1..Len(s) : IF i \in {3, 6} THEN s[i] = ":" ELSE IsDigit(s[i])
    /\ DecVal(SubSeq(s, 1, 2)) \in 0..23
    /\ Len(s) >= 5 => DecVal(SubSeq(s, 4, 5)) \in 0..59
    /\ Len(s) >= 8 => DecVal(SubSeq(s, 7, 8)) \in 0..59

\* datetime.fromisoformat(s) returns (TRUE) or raises ValueError (FALSE)
fromisoformat(s) ==
    /\ Len(s) >= 10
    /\ IsIsoDate(SubSeq(s, 1, 10))
    /\ Len(s) > 10 => IsIsoTime(SubSeq(s, 12, Len(s)))

\* n as w decimal digits, zero padded
RECURSIVE Pad(_, _)
Pad(n, w) == IF w = 0 THEN <<>> ELSE Pad(n \div 10, w - 1) \o <<Digits[(n % 10) + 1]>>

\* date(y, m, d).isoformat()
isoformat(ymd) == Pad(ymd[1], 4) \o <<"-">> \o Pad(ymd[2], 2) \o <<"-">> \o Pad(ymd[3], 2)

(***************************************************************************)
(* ObjectId.                                                               *)
(***************************************************************************)
\* an ObjectId is 12 bytes, written as this many hexadecimal digits
OidHexLen == 24

IsHex(c) == IsDigit(c) \/ c \in Range(HexLower) \/ c \in Range(HexUpper)

HexVal(c) ==
    IF IsDigit(c) THEN DigitVal(c)
    ELSE IF c \in Range(HexLower) THEN 9 + (CHOOSE i \in 1..6 : HexLower[i] = c)
    ELSE 9 + (CHOOSE i \in 1..6 : HexUpper[i] = c)

RECURSIVE HexNum(_)
HexNum(s) ==
    IF s = <<>> THEN 0
    ELSE 16 * HexNum(SubSeq(s, 1, Len(s) - 1)) + HexVal(s[Len(s)])

\* ObjectId(s) returns (TRUE) or raises InvalidId (FALSE)
ObjectIdValid(s) == Len(s) = OidHexLen /\ \A i \in 1..Len(s) : IsHex(s[i])

\* ObjectId(s): the 12 bytes as a number
ObjectId(s) == HexNum(s)

RECURSIVE HexStr(_, _)
HexStr(n, w) ==
    IF w = 0 THEN <<>>
    ELSE HexStr(n \div 16, w - 1) \o
         <<IF n % 16 < 10 THEN Digits[(n % 16) + 1] ELSE HexLower[(n % 16) - 9]>>

\* str(oid): lower-case hexadecimal
OidStr(oid) == HexStr(oid, OidHexLen)

(***************************************************************************)
(* Document store (pymongo collections).                                   *)
(***************************************************************************)
Fields == {"message", "start_date", "end_date"}

\* the ObjectId the driver generates for the (n+1)-th inserted document
NewObjectId(n) == FirstOid + n

RECURSIVE SortedIds(_)
SortedIds(S) ==
    IF S = {} THEN <<>>
    ELSE LET m == CHOOSE x \in S : \A y \in S : x <= y
         IN  <<m>> \o SortedIds(S \ {m})

\* collection.find(): every document, in insertion order
find(coll) ==
    LET ids == SortedIds(DOMAIN coll)
    IN  [i \in 1..Len(ids) |->
            [_id |-> ids[i], message |-> coll[ids[i]].message,
             start_date |-> coll[ids[i]].start_date,
             end_date |-> coll[ids[i]].end_date]]

\* collection.insert_one(doc): the collection afterwards
insert_one(coll, oid, doc) ==
    [k \in DOMAIN coll \cup {oid} |-> IF k = oid THEN doc ELSE coll[k]]

\* update_one with upsert=True: a document is made when none matches
update_one_upsert(coll, oid, data) ==
    [matched_count |-> IF oid \in DOMAIN coll THEN 1 ELSE 0,
     coll |-> [k \in DOMAIN coll \cup {oid} |->
                 [f \in Fields |-> IF f \in DOMAIN data THEN data[f]
                                   ELSE IF k \in DOMAIN coll THEN coll[k][f] ELSE None]]]

\* update_one that replaces the document instead of setting the given fields
update_one_replace(coll, oid, data) ==
    IF oid \in DOMAIN coll
    THEN [matched_count |-> 1,
          coll |-> [coll EXCEPT ![oid] =
                      [f \in Fields |-> IF f \in DOMAIN data THEN data[f] ELSE None]]]
    ELSE [matched_count |-> 0, coll |-> coll]

\* collection.update_one({"_id": oid}, {"$set": data}): matched_count and the
\* collection afterwards
update_one(coll, oid, data) ==
    IF oid \in DOMAIN coll
    THEN [matched_count |-> 1,
          coll |-> [coll EXCEPT ![oid] =
                      [f \in Fields |-> IF f \in DOMAIN data THEN data[f] ELSE @[f]]]]
    ELSE [matched_count |-> 0, coll |-> coll]

\* collection.delete_one({"_id": oid}): deleted_count and the collection afterwards
delete_one(coll, oid) ==
    IF oid \in DOMAIN coll
    THEN [deleted_count |-> 1, coll |-> [k \in DOMAIN coll \ {oid} |-> coll[k]]]
    ELSE [deleted_count |-> 0, coll |-> coll]

\* hash_password of database.py: a one-way hash of the plain password
hash_password(plain) == <<"$argon2id$">> \o plain

\* verify_password(hashed, plain) of database.py
verify_password(hashed, plain) == hashed = hash_password(plain)

Al == <<"a", "l">>
Zz == <<"z", "z">>
Pw == <<"p", "w">>
Px == <<"p", "x">>

\* teachers_collection: created out of band, read-only here
teachers_collection ==
    [k \in {Al} |->
        [username |-> Al, display_name |-> "Ms. Al", role |-> "teacher",
         password |-> hash_password(Pw)]]

(***************************************************************************)
(* Responses.                                                              *)
(***************************************************************************)
\* return body
Return(body) == [status |-> 200, raised |-> "none", body |-> body]

\* raise HTTPException(status_code, detail)
HTTPException(code, detail) ==
    [status |-> code, raised |-> "HTTPException", body |-> [detail |-> detail]]

\* an exception of the store driver that leaves the handler uncaught
Uncaught == [status |-> 0, raised |-> "Exception", body |-> [detail |-> "pymongo error"]]

\* the three public fields of a teacher record
PublicUser(teacher) ==
    [username |-> teacher.username, display_name |-> teacher.display_name,
     role |-> teacher.role]

\* announcement["_id"] = str(announcement["_id"])
WithStrId(doc) == [doc EXCEPT !._id = OidStr(@)]

(***************************************************************************)
(* auth.py                                                                 *)
(***************************************************************************)
Bearer == <<"B", "e", "a", "r", "e", "r", " ">>

\* s.replace(old, ""): every occurrence of old removed, left to right
RECURSIVE RemoveAll(_, _)
RemoveAll(s, old) ==
    IF Len(s) < Len(old) THEN s
    ELSE IF SubSeq(s, 1, Len(old)) = old
         THEN RemoveAll(SubSeq(s, Len(old) + 1, Len(s)), old)
         ELSE <<s[1]>> \o RemoveAll(SubSeq(s, 2, Len(s)), old)

\* get_current_user that takes any non-empty header for the first teacher
get_current_user_any(authorization, fails) ==
    IF ~Truthy(authorization)
    THEN [ok |-> FALSE, resp |-> HTTPException(401, "Not authenticated")]
    ELSE [ok |-> TRUE, resp |-> Return(PublicUser(teachers_collection[Al]))]

\* get_current_user(authorization); fails: the store call that raises, if any.
\* ok: the dependency returned and the handler's body runs.
get_current_user(authorization, fails) ==
    IF ~Truthy(authorization)
    THEN [ok |-> FALSE, resp |-> HTTPException(401, "Not authenticated")]
    ELSE LET username == RemoveAll(authorization, Bearer)
         IN  IF fails = "teachers"
             THEN [ok |-> FALSE, resp |-> Uncaught]
             ELSE IF username \notin DOMAIN teachers_collection
             THEN [ok |-> FALSE,
                   resp |-> HTTPException(401, "Invalid authentication credentials")]
             ELSE [ok |-> TRUE,
                   resp |-> Return(PublicUser(teachers_collection[username]))]

\* login that tells an unknown username from a wrong password
login_leaky(username, password, fails) ==
    IF fails = "teachers" THEN Uncaught
    ELSE IF username \notin DOMAIN teachers_collection
    THEN HTTPException(404, "Teacher not found")
    ELSE IF ~verify_password(teachers_collection[username].password, password)
    THEN HTTPException(401, "Invalid username or password")
    ELSE Return(PublicUser(teachers_collection[username]))

\* login(username, password)
login(username, password, fails) ==
    IF fails = "teachers" THEN Uncaught
    ELSE IF \/ username \notin DOMAIN teachers_collection
            \/ ~verify_password(teachers_collection[username].password, password)
    THEN HTTPException(401, "Invalid username or password")
    ELSE Return(PublicUser(teachers_collection[username]))

\* check_session(username)
check_session(username, fails) ==
    IF fails = "teachers" THEN Uncaught
    ELSE IF username \notin DOMAIN teachers_collection
    THEN HTTPException(404, "Teacher not found")
    ELSE Return(PublicUser(teachers_collection[username]))

(***************************************************************************)
(* announcements.py                                                        *)
(* A handler is given the collection and the request and yields the        *)
(* collection afterwards (coll), the response (resp) and the number of     *)
(* mutating store calls it made (writes).                                  *)
(***************************************************************************)
Outcome(coll, resp, writes) == [coll |-> coll, resp |-> resp, writes |-> writes]

\* is_active with the start test written >= for >
is_active_inclusive(start_date, end_date, today) ==
    /\ ~(Truthy(start_date) /\ StrGe(start_date, today))
    /\ ~(Truthy(end_date) /\ StrLt(end_date, today))

\* the test of lines 42-46 on one document
is_active(start_date, end_date, today) ==
    /\ ~(Truthy(start_date) /\ StrGt(start_date, today))
    /\ ~(Truthy(end_date) /\ StrLt(end_date, today))

RECURSIVE FilterActive(_, _)
FilterActive(docs, today) ==
    IF docs = <<>> THEN <<>>
    ELSE (IF is_active(Head(docs).start_date, Head(docs).end_date, today)
          THEN <<WithStrId(Head(docs))>> ELSE <<>>)
         \o FilterActive(Tail(docs), today)

\* get_active_announcements(); ymd is the process clock's date
get_active_announcements(coll, ymd, fails) ==
    LET today == isoformat(ymd)
    IN  IF fails = "announcements"
        THEN Outcome(coll, HTTPException(500, "Failed to fetch announcements"), 0)
        ELSE Outcome(coll, Return([announcements |-> FilterActive(find(coll), today)]), 0)

\* the body of get_all_announcements
get_all_body(coll, fails) ==
    IF fails = "announcements"
    THEN Outcome(coll, HTTPException(500, "Failed to fetch announcements"), 0)
    ELSE LET docs == find(coll)
         IN  Outcome(coll,
                 Return([announcements |-> [i \in 1..Len(docs) |-> WithStrId(docs[i])]]), 0)

\* create_announcement up to the store call: the 400 it raises, if any
create_validate(announcement) ==
    IF Truthy(announcement.start_date) /\ ~fromisoformat(announcement.start_date)
    THEN [done |-> TRUE,
          resp |-> HTTPException(400, "Invalid start_date format. Use YYYY-MM-DD")]
    ELSE IF ~fromisoformat(announcement.end_date)
    THEN [done |-> TRUE,
          resp |-> HTTPException(400, "Invalid end_date format. Use YYYY-MM-DD")]
    ELSE IF /\ Truthy(announcement.start_date) /\ Truthy(announcement.end_date)
            /\ StrGt(announcement.start_date, announcement.end_date)
    THEN [done |-> TRUE,
          resp |-> HTTPException(400, "end_date must be after start_date")]
    ELSE [done |-> FALSE, resp |-> Return([message |-> "validated"])]

\* create_announcement from insert_one on; nid: ObjectIds generated so far
create_store(coll, nid, announcement, fails) ==
    IF fails = "announcements"
    THEN Outcome(coll, HTTPException(500, "Failed to create announcement"), 0)
    ELSE LET inserted_id == NewObjectId(nid)
         IN  Outcome(insert_one(coll, inserted_id, announcement),
                 Return([message |-> "Announcement created successfully",
                         announcement |->
                             [_id |-> OidStr(inserted_id),
                              message |-> announcement.message,
                              start_date |-> announcement.start_date,
                              end_date |-> announcement.end_date]]), 1)

\* the body of create_announcement
create_body(coll, nid, announcement, fails) ==
    LET v == create_validate(announcement)
    IN  IF v.done THEN Outcome(coll, v.resp, 0)
        ELSE create_store(coll, nid, announcement, fails)

\* update_data: the supplied fields
UpdateData(announcement) ==
    [f \in {g \in Fields : announcement[g] # None} |-> announcement[f]]

\* update_announcement up to the store call: the 400 it raises, if any
update_validate(announcement_id, announcement) ==
    IF ~ObjectIdValid(announcement_id)
    THEN [done |-> TRUE, resp |-> HTTPException(400, "Invalid announcement ID")]
    ELSE IF announcement.start_date # None /\ ~fromisoformat(announcement.start_date)
    THEN [done |-> TRUE,
          resp |-> HTTPException(400, "Invalid start_date format. Use YYYY-MM-DD")]
    ELSE IF announcement.end_date # None /\ ~fromisoformat(announcement.end_date)
    THEN [done |-> TRUE,
          resp |-> HTTPException(400, "Invalid end_date format. Use YYYY-MM-DD")]
    ELSE IF DOMAIN UpdateData(announcement) = {}
    THEN [done |-> TRUE, resp |-> HTTPException(400, "No fields to update")]
    ELSE [done |-> FALSE, resp |-> Return([message |-> "validated"])]

\* update_announcement from update_one on
update_store(coll, announcement_id, announcement, fails) ==
    IF fails = "announcements"
    THEN Outcome(coll, HTTPException(500, "Failed to update announcement"), 0)
    ELSE LET result == update_one(coll, ObjectId(announcement_id), UpdateData(announcement))
         IN  IF result.matched_count = 0
             THEN Outcome(result.coll, HTTPException(404, "Announcement not found"), 1)
             ELSE Outcome(result.coll,
                      Return([message |-> "Announcement updated successfully"]), 1)

\* update_announcement that writes the message before it validates the dates
update_body_early_write(coll, announcement_id, announcement, fails) ==
    LET v == update_validate(announcement_id, announcement)
    IN  IF v.done
        THEN Outcome(IF ObjectIdValid(announcement_id) /\ announcement.message # None
                     THEN update_one(coll, ObjectId(announcement_id),
                                     [f \in {"message"} |-> announcement.message]).coll
                     ELSE coll, v.resp, 0)
        ELSE update_store(coll, announcement_id, announcement, fails)

\* the body of update_announcement
update_body(coll, announcement_id, announcement, fails) ==
    LET v == update_validate(announcement_id, announcement)
    IN  IF v.done THEN Outcome(coll, v.resp, 0)
        ELSE update_store(coll, announcement_id, announcement, fails)

\* delete_announcement up to the store call
delete_validate(announcement_id) ==
    IF ~ObjectIdValid(announcement_id)
    THEN [done |-> TRUE, resp |-> HTTPException(400, "Invalid announcement ID")]
    ELSE [done |-> FALSE, resp |-> Return([message |-> "validated"])]

\* delete_announcement that does not look at deleted_count
delete_store_unchecked(coll, announcement_id, fails) ==
    IF fails = "announcements"
    THEN Outcome(coll, HTTPException(500, "Failed to delete announcement"), 0)
    ELSE Outcome(delete_one(coll, ObjectId(announcement_id)).coll,
             Return([message |-> "Announcement deleted successfully"]), 1)

\* delete_announcement from delete_one on
delete_store(coll, announcement_id, fails) ==
    IF fails = "announcements"
    THEN Outcome(coll, HTTPException(500, "Failed to delete announcement"), 0)
    ELSE LET result == delete_one(coll, ObjectId(announcement_id))
         IN  IF result.deleted_count = 0
             THEN Outcome(result.coll, HTTPException(404, "Announcement not found"), 1)
             ELSE Outcome(result.coll,
                      Return([message |-> "Announcement deleted successfully"]), 1)

\* the body of delete_announcement
delete_body(coll, announcement_id, fails) ==
    LET v == delete_validate(announcement_id)
    IN  IF v.done THEN Outcome(coll, v.resp, 0)
        ELSE delete_store(coll, announcement_id, fails)

\* Depends(get_current_user): the body runs only when the dependency returned
Depends(coll, authorization, fails, body) ==
    LET user == get_current_user(authorization, fails)
    IN  IF user.ok THEN body ELSE Outcome(coll, user.resp, 0)

get_all_announcements(coll, authorization, fails) ==
    Depends(coll, authorization, fails, get_all_body(coll, fails))

create_announcement(coll, nid, authorization, announcement, fails) ==
    Depends(coll, authorization, fails, create_body(coll, nid, announcement, fails))

update_announcement(coll, authorization, announcement_id, announcement, fails) ==
    Depends(coll, authorization, fails,
            update_body(coll, announcement_id, announcement, fails))

delete_announcement(coll, authorization, announcement_id, fails) ==
    Depends(coll, authorization, fails, delete_body(coll, announcement_id, fails))

(***************************************************************************)
(* Request models (pydantic) and the inputs of the model.                  *)
(***************************************************************************)
MessageMinLen == 1
MessageMaxLen == 500

\* class AnnouncementCreate: what the framework lets through to the handler
AnnouncementCreate(a) ==
    /\ a.message # None /\ Len(a.message) \in MessageMinLen..MessageMaxLen
    /\ a.end_date # None

\* class AnnouncementUpdate
AnnouncementUpdate(a) ==
    a.message # None => Len(a.message) \in MessageMinLen..MessageMaxLen

M1 == <<"m", "1">>
M2 == <<"m", "2">>
Da == <<"2", "0", "2", "5", "-", "0", "1", "-", "0", "5">>
Db == <<"2", "0", "2", "5", "-", "0", "1", "-", "1", "0">>
BadDate == <<"1", "3", "/", "3", "1", "/", "2", "0", "2", "4">>
BadId == <<"n", "o", "-", "i", "d">>

\* the dates the process clock shows
Todays == {<<2025, 1, 1>>, <<2025, 1, 5>>, <<2025, 1, 10>>, <<2025, 1, 11>>}

GoodAuth == Bearer \o Al
\* no header, an empty header, the bare username, an unknown username
AuthProbes == {None, <<>>, Al, Bearer \o Zz}

\* s.upper() on the hexadecimal letters
Upper(s) ==
    [i \in 1..Len(s) |->
        IF s[i] \in Range(HexLower)
        THEN HexUpper[CHOOSE k \in 1..6 : HexLower[k] = s[i]] ELSE s[i]]

\* identifiers of the documents the bounds allow
KnownIds == {OidStr(NewObjectId(n)) : n \in 0..(MaxAnnouncements - 1)}
IdInputs == KnownIds \cup {Upper(OidStr(NewObjectId(0))), BadId}

CreateBodies ==
    {a \in [message : {M1}, start_date : {None, <<>>, Db, BadDate},
            end_date : {Da, Db, BadDate}] : AnnouncementCreate(a)}

UpdateBodies ==
    {a \in [message : {None, M2}, start_date : {None, <<>>, Db},
            end_date : {None, Da, BadDate}] : AnnouncementUpdate(a)}

\* authorization header and failing store call: every body with a good header, two
\* bodies with every other header, one body with each failing store call
AuthAndFails(b, valid, invalid) ==
    {<<GoodAuth, "none">>}
    \cup (IF b \in {valid, invalid} THEN {<<h, "none">> : h \in AuthProbes} ELSE {})
    \cup (IF b = valid THEN {<<GoodAuth, "teachers">>, <<GoodAuth, "announcements">>}
          ELSE {})

ValidCreate == [message |-> M1, start_date |-> None, end_date |-> Db]
InvalidCreate == [message |-> M1, start_date |-> None, end_date |-> BadDate]
ValidUpdate == [message |-> M2, start_date |-> None, end_date |-> None]
InvalidUpdate == [message |-> M2, start_date |-> None, end_date |-> BadDate]

(***************************************************************************)
(* Spec: one request at a time, each handler run from start to end.        *)
(* last holds the request being answered, with the collection (before) and *)
(* the identifiers already deleted (gone) when it arrived.                  *)
(***************************************************************************)
NoRequest == [op |-> "none"]

\* a request is taken when the previous response has been sent
Idle == last = NoRequest

Init ==
    /\ announcements = <<>>
    /\ nextId = 0
    /\ deleted = {}
    /\ last = NoRequest
    /\ reqs = <<>>
    /\ applied = <<>>

\* the request is answered: the collection and the response it leaves
Served(op, req, o) ==
    /\ announcements' = o.coll
    /\ last' = [op |-> op, req |-> req, resp |-> o.resp, before |-> announcements,
                gone |-> deleted]
    /\ UNCHANGED <<reqs, applied>>

GetActive ==
    /\ Idle
    /\ \E ymd \in Todays, f \in {"none", "announcements"} :
        /\ Served("get_active", [today |-> ymd, fails |-> f],
                  get_active_announcements(announcements, ymd, f))
        /\ UNCHANGED <<nextId, deleted>>

GetAll ==
    /\ Idle
    /\ \E h \in {GoodAuth, Bearer \o GoodAuth} \cup AuthProbes,
          f \in {"none", "teachers", "announcements"} :
        /\ Served("get_all", [authorization |-> h, fails |-> f],
                  get_all_announcements(announcements, h, f))
        /\ UNCHANGED <<nextId, deleted>>

Create ==
    /\ Idle
    /\ \E a \in CreateBodies : \E hf \in AuthAndFails(a, ValidCreate, InvalidCreate) :
        LET o == create_announcement(announcements, nextId, hf[1], a, hf[2])
        IN  /\ nextId + o.writes <= MaxAnnouncements
            /\ Served("create", [authorization |-> hf[1], announcement |-> a, fails |-> hf[2]], o)
            /\ nextId' = nextId + o.writes
            /\ UNCHANGED deleted

Update ==
    /\ Idle
    /\ \E id \in IdInputs, a \in UpdateBodies :
      \E hf \in AuthAndFails(a, ValidUpdate, InvalidUpdate) :
        /\ Served("update", [authorization |-> hf[1], announcement_id |-> id,
                             announcement |-> a, fails |-> hf[2]],
                  update_announcement(announcements, hf[1], id, a, hf[2]))
        /\ UNCHANGED <<nextId, deleted>>

Delete ==
    /\ Idle
    /\ \E id \in IdInputs : \E hf \in AuthAndFails(id, id, id) :
        LET o == delete_announcement(announcements, hf[1], id, hf[2])
        IN  /\ Served("delete", [authorization |-> hf[1], announcement_id |-> id,
                                 fails |-> hf[2]], o)
            /\ deleted' = IF o.resp.status = 200 THEN deleted \cup {ObjectId(id)}
                          ELSE deleted
            /\ UNCHANGED nextId

Login ==
    /\ Idle
    /\ \E u \in {Al, Zz}, pw \in {Pw, Px}, f \in {"none", "teachers"} :
        /\ Served("login", [username |-> u, password |-> pw, fails |-> f],
                  Outcome(announcements, login(u, pw, f), 0))
        /\ UNCHANGED <<nextId, deleted>>

CheckSession ==
    /\ Idle
    /\ \E u \in {Al, Zz}, f \in {"none", "teachers"} :
        /\ Served("check_session", [username |-> u, fails |-> f],
                  Outcome(announcements, check_session(u, f), 0))
        /\ UNCHANGED <<nextId, deleted>>

\* the response is sent and the server awaits the next request
Reply ==
    /\ last # NoRequest
    /\ last' = NoRequest
    /\ UNCHANGED <<announcements, nextId, deleted, reqs, applied>>

Next ==
    \/ GetActive
    \/ GetAll
    \/ Create
    \/ Update
    \/ Delete
    \/ Login
    \/ CheckSession
    \/ Reply

Spec == Init /\ [][Next]_vars

(***************************************************************************)
(* SpecConc: requests served concurrently.  A request arrives and runs     *)
(* the gate and the validation of its handler, which read nothing that     *)
(* changes; the handler's one call on announcements_collection is a step   *)
(* of its own, atomic in the store, and any two requests interleave.       *)
(***************************************************************************)
FirstId == OidStr(NewObjectId(0))
\* a request without a body
NoBody == [message |-> None, start_date |-> None, end_date |-> None]
UpdateMessage == [message |-> M2, start_date |-> None, end_date |-> None]
UpdateMessageAndEnd == [message |-> M1, start_date |-> None, end_date |-> Da]
UpdateBadDate == [message |-> M2, start_date |-> None, end_date |-> BadDate]

\* the requests of a concurrent run: all aimed at the first record
ConcRequests ==
    {[op |-> "create", authorization |-> GoodAuth, announcement_id |-> None,
      announcement |-> ValidCreate, fails |-> "none"]}
    \cup {[op |-> "update", authorization |-> GoodAuth, announcement_id |-> FirstId,
           announcement |-> a, fails |-> "none"] :
              a \in {UpdateMessage, UpdateMessageAndEnd, UpdateBadDate}}
    \cup {[op |-> "delete", authorization |-> h, announcement_id |-> FirstId,
           announcement |-> NoBody, fails |-> f] :
              h \in {GoodAuth, Bearer \o Zz}, f \in {"none", "announcements"}}

\* the handler's code before its store call
Validate(r) ==
    CASE r.op = "create" -> create_validate(r.announcement)
      [] r.op = "update" -> update_validate(r.announcement_id, r.announcement)
      [] r.op = "delete" -> delete_validate(r.announcement_id)

\* the handler's store call and the code after it
StoreStep(coll, nid, r) ==
    CASE r.op = "create" -> create_store(coll, nid, r.announcement, r.fails)
      [] r.op = "update" -> update_store(coll, r.announcement_id, r.announcement, r.fails)
      [] r.op = "delete" -> delete_store(coll, r.announcement_id, r.fails)

\* the whole handler, run alone
Handle(coll, nid, r) ==
    CASE r.op = "create" ->
            create_announcement(coll, nid, r.authorization, r.announcement, r.fails)
      [] r.op = "update" ->
            update_announcement(coll, r.authorization, r.announcement_id,
                                r.announcement, r.fails)
      [] r.op = "delete" ->
            delete_announcement(coll, r.authorization, r.announcement_id, r.fails)

Pending == {i \in 1..Len(reqs) : reqs[i].pc = "validated"}

\* a request arrives; gate and validation either answer it or let it go on
Arrive ==
    /\ Len(reqs) < MaxRequests
    /\ \E r \in ConcRequests :
        LET user == get_current_user(r.authorization, r.fails)
            v == Validate(r)
            answered == ~user.ok \/ v.done
        IN  /\ r.op = "create" =>
                 nextId + Cardinality({i \in Pending : reqs[i].op = "create"})
                     < MaxAnnouncements
            /\ reqs' = Append(reqs,
                 [op |-> r.op, req |-> r,
                  pc |-> IF answered THEN "done" ELSE "validated",
                  resp |-> IF ~user.ok THEN user.resp ELSE v.resp,
                  writes |-> 0,
                  existed |-> /\ r.op # "create"
                              /\ ObjectIdValid(r.announcement_id)
                              /\ ObjectId(r.announcement_id) \in DOMAIN announcements])
    /\ UNCHANGED <<announcements, nextId, deleted, last, applied>>

\* the store call of one validated request, and its response
StoreCall ==
    \E i \in Pending :
        LET r == reqs[i].req
            o == StoreStep(announcements, nextId, r)
        IN  /\ announcements' = o.coll
            /\ reqs' = [reqs EXCEPT ![i].pc = "done", ![i].resp = o.resp,
                                    ![i].writes = o.writes]
            /\ applied' = Append(applied, i)
            /\ nextId' = IF r.op = "create" THEN nextId + o.writes ELSE nextId
            /\ deleted' = IF r.op = "delete" /\ o.resp.status = 200
                          THEN deleted \cup {ObjectId(r.announcement_id)} ELSE deleted
            /\ UNCHANGED last

NextConc ==
    \/ Arrive
    \/ StoreCall

SpecConc == Init /\ [][NextConc]_vars

(***************************************************************************)
(* Properties of Spec.                                                     *)
(***************************************************************************)
AuthOps == {"get_all", "create", "update", "delete"}

\* the credential the header carries: the header without "Bearer "
CredentialOf(h) == RemoveAll(h, Bearer)

\* the request came with the key of a teacher record
Authenticated(req) ==
    Truthy(req.authorization) /\ CredentialOf(req.authorization) \in DOMAIN teachers_collection

\* the request was answered by the handler's body, with no store failure
BodyRan == last.op \in AuthOps /\ Authenticated(last.req) /\ last.req.fails = "none"

\* the active window of section 4.1
InWindow(doc, today) ==
    /\ doc.start_date = None \/ StrLe(doc.start_date, today)
    /\ doc.end_date = None \/ StrGe(doc.end_date, today)

\* C1: get_active_announcements returns exactly the records of
\* get_all_announcements whose window contains today: start_date absent or
\* <= today, and end_date absent or >= today.
C1_ActiveIsWindowOfAll ==
    (last.op = "get_active" /\ last.req.fails = "none") =>
        LET today == isoformat(last.req.today)
            all == get_all_body(last.before, "none").resp.body.announcements
            Test(doc) == InWindow(doc, today)
        IN  /\ last.resp.status = 200
            /\ last.resp.body.announcements = SelectSeq(all, Test)

\* a listing that leaves out an expired record and keeps one without start_date
C1_Witness ==
    /\ last.op = "get_active" /\ last.resp.status = 200
    /\ LET today == isoformat(last.req.today)
           all == get_all_body(last.before, "none").resp.body.announcements
           act == last.resp.body.announcements
       IN  /\ \E i \in 1..Len(all) :
                /\ StrLt(all[i].end_date, today)
                /\ \A j \in 1..Len(act) : act[j]._id # all[i]._id
           /\ \E j \in 1..Len(act) :
                act[j].start_date = None /\ StrGe(act[j].end_date, today)

\* C2: every stored announcement that has both dates has start_date <= end_date.
C2_StartNotAfterEnd ==
    \A k \in DOMAIN announcements :
        (announcements[k].start_date # None /\ announcements[k].end_date # None)
            => StrLe(announcements[k].start_date, announcements[k].end_date)

\* a create request the claim wants refused
CreateInvalid(a) ==
    \/ a.start_date # None /\ ~fromisoformat(a.start_date)
    \/ ~fromisoformat(a.end_date)
    \/ a.start_date # None /\ StrGt(a.start_date, a.end_date)

\* C3: create_announcement with a date that does not parse, or with
\* start_date > end_date, ends with 400 and leaves the collection unchanged;
\* otherwise it inserts exactly one record with the supplied fields and
\* returns it with its identifier.
C3_CreateValidatesOrInserts ==
    (last.op = "create" /\ BodyRan) =>
        LET a == last.req.announcement
        IN  IF CreateInvalid(a)
            THEN last.resp.status = 400 /\ announcements = last.before
            ELSE /\ last.resp.status = 200
                 /\ \E k \in DOMAIN announcements \ DOMAIN last.before :
                      /\ DOMAIN announcements = DOMAIN last.before \cup {k}
                      /\ \A j \in DOMAIN last.before : announcements[j] = last.before[j]
                      /\ announcements[k] = a
                      /\ last.resp.body.announcement =
                           [_id |-> OidStr(k), message |-> a.message,
                            start_date |-> a.start_date, end_date |-> a.end_date]

\* the dates an update supplies all parse
UpdateDatesParse(a) ==
    /\ a.start_date # None => fromisoformat(a.start_date)
    /\ a.end_date # None => fromisoformat(a.end_date)

UpdateSupplied(a) == {f \in Fields : a[f] # None}

\* C4: update_announcement leaves every record unchanged whenever it fails:
\* no supplied field gives 400, an unparsable supplied date gives 400, and an
\* otherwise valid request whose identifier matches no record gives 404.
C4_FailedUpdateWritesNothing ==
    (last.op = "update") =>
        LET a == last.req.announcement
            id == last.req.announcement_id
        IN  /\ last.resp.status # 200 => announcements = last.before
            /\ BodyRan =>
                 /\ UpdateSupplied(a) = {} => last.resp.status = 400
                 /\ ~UpdateDatesParse(a) => last.resp.status = 400
                 /\ ~ObjectIdValid(id) => last.resp.status = 400
                 /\ ( /\ ObjectIdValid(id) /\ ObjectId(id) \notin DOMAIN last.before
                      /\ UpdateSupplied(a) # {} /\ UpdateDatesParse(a) )
                        => last.resp.status = 404

\* a refused update of an existing record that supplied a message and a bad date
C4_Witness ==
    /\ last.op = "update" /\ BodyRan
    /\ last.resp.status = 400
    /\ ObjectIdValid(last.req.announcement_id)
    /\ ObjectId(last.req.announcement_id) \in DOMAIN last.before
    /\ last.req.announcement.message # None
    /\ ~UpdateDatesParse(last.req.announcement)

\* C5: once delete_announcement has succeeded for an identifier, no listing
\* contains it, a later delete or update of it gives 404, and the delete
\* removed that record alone.
C5_DeletedStaysGone ==
    /\ \A k \in deleted : k \notin DOMAIN announcements
    /\ (last.op \in {"get_active", "get_all"} /\ last.resp.status = 200) =>
         \A i \in 1..Len(last.resp.body.announcements) : \A k \in deleted :
             last.resp.body.announcements[i]._id # OidStr(k)
    /\ ( /\ last.op \in {"delete", "update"} /\ BodyRan
         /\ ObjectIdValid(last.req.announcement_id)
         /\ ObjectId(last.req.announcement_id) \in last.gone
         /\ last.op = "update" =>
              (UpdateSupplied(last.req.announcement) # {}
               /\ UpdateDatesParse(last.req.announcement)) )
         => last.resp.status = 404
    /\ (last.op = "delete" /\ last.resp.status = 200) =>
         LET k == ObjectId(last.req.announcement_id)
         IN  /\ k \in DOMAIN last.before
             /\ DOMAIN announcements = DOMAIN last.before \ {k}
             /\ \A j \in DOMAIN announcements : announcements[j] = last.before[j]

\* a second delete of a deleted identifier, refused, with another record kept
C5_Witness ==
    /\ last.op = "delete" /\ BodyRan
    /\ ObjectIdValid(last.req.announcement_id)
    /\ ObjectId(last.req.announcement_id) \in last.gone
    /\ last.resp.status = 404
    /\ DOMAIN announcements # {}

\* C6: the four authenticated handlers run their body only after
\* get_current_user succeeds: with no header, or a credential that is not the
\* key of a teacher record, the request ends with 401 and the collection is
\* unchanged; get_active_announcements takes no credential.
C6_GateBeforeBody ==
    /\ (last.op \in AuthOps /\ ~Authenticated(last.req)
          /\ (Truthy(last.req.authorization) => last.req.fails # "teachers")) =>
         /\ last.resp.status = 401 /\ last.resp.raised = "HTTPException"
         /\ announcements = last.before
    /\ (last.op \in AuthOps /\ last.resp.status \in {200, 400, 404}) =>
         Authenticated(last.req)
    /\ last.op = "get_active" => last.resp.status # 401

\* a request with an unknown credential and an invalid body, refused with 401
C6_Witness ==
    /\ last.op \in {"create", "update"}
    /\ last.req.authorization = Bearer \o Zz
    /\ ~fromisoformat(last.req.announcement.end_date)
    /\ last.resp.status = 401

\* the password verifies against the record of a known username
Verifies(username, password) ==
    /\ username \in DOMAIN teachers_collection
    /\ verify_password(teachers_collection[username].password, password)

\* C7: login answers an unknown username and a wrong password with the same
\* 401; it succeeds only for a known username whose password verifies, and
\* then returns exactly username, display_name and role.
C7_LoginNoLeak ==
    (last.op = "login" /\ last.req.fails = "none") =>
        IF Verifies(last.req.username, last.req.password)
        THEN /\ last.resp.status = 200
             /\ DOMAIN last.resp.body = {"username", "display_name", "role"}
             /\ last.resp.body.username = last.req.username
             /\ last.resp.body.display_name =
                  teachers_collection[last.req.username].display_name
             /\ last.resp.body.role = teachers_collection[last.req.username].role
        ELSE last.resp = HTTPException(401, "Invalid username or password")

\* a login with an unknown username, refused
C7_Witness ==
    /\ last.op = "login" /\ last.req.fails = "none"
    /\ last.req.username \notin DOMAIN teachers_collection
    /\ last.resp.status = 401

\* C8: a successful update_announcement sets exactly the supplied fields of
\* the record with the given identifier; its other fields, its identifier,
\* every other record and the number of records are unchanged.
C8_UpdateFrame ==
    (last.op = "update" /\ last.resp.status = 200) =>
        LET k == ObjectId(last.req.announcement_id)
            a == last.req.announcement
        IN  /\ k \in DOMAIN last.before
            /\ DOMAIN announcements = DOMAIN last.before
            /\ \A j \in DOMAIN announcements \ {k} : announcements[j] = last.before[j]
            /\ \A f \in Fields :
                 announcements[k][f] = IF a[f] # None THEN a[f] ELSE last.before[k][f]

\* an update that set some fields, kept another and left a second record alone
C8_Witness ==
    /\ last.op = "update" /\ last.resp.status = 200
    /\ Cardinality(DOMAIN announcements) >= 2
    /\ UpdateSupplied(last.req.announcement) \notin {{}, Fields}
    /\ announcements # last.before

\* the store call that the request says fails is one the handler reaches
FailureReached ==
    \/ /\ last.req.fails = "teachers"
       /\ last.op \in {"login", "check_session"}
            \/ (last.op \in AuthOps /\ Truthy(last.req.authorization))
    \/ /\ last.req.fails = "announcements"
       /\ \/ last.op = "get_active"
          \/ last.op = "get_all" /\ Authenticated(last.req)
          \/ last.op = "create" /\ Authenticated(last.req)
               /\ ~create_validate(last.req.announcement).done
          \/ last.op = "update" /\ Authenticated(last.req)
               /\ ~update_validate(last.req.announcement_id, last.req.announcement).done
          \/ last.op = "delete" /\ Authenticated(last.req)
               /\ ~delete_validate(last.req.announcement_id).done

\* C9: in every operation a failure of the document store is caught by the
\* handler and becomes a 500 with a generic detail, and the handler's own
\* 400, 401 and 404 are never turned into 500.
C9_StoreFailureCaught ==
    (last.op # "none") =>
        /\ last.resp.raised # "Exception"
        /\ FailureReached => last.resp.status = 500
        /\ last.resp.status = 500 => FailureReached

(***************************************************************************)
(* Properties of SpecConc.                                                 *)
(***************************************************************************)
Done == {i \in 1..Len(reqs) : reqs[i].pc = "done"}

\* the answered requests in one order: by store call, then the ones that
\* made no store call
SerialOrder == applied \o SortedIds(Done \ Range(applied))

\* the requests of order[1..n] run one after the other from the empty collection
RECURSIVE SerialRun(_, _)
SerialRun(order, n) ==
    IF n = 0 THEN [coll |-> <<>>, nid |-> 0, resp |-> <<>>]
    ELSE LET s == SerialRun(order, n - 1)
             r == reqs[order[n]].req
             o == Handle(s.coll, s.nid, r)
         IN  [coll |-> o.coll,
              nid |-> IF r.op = "create" THEN s.nid + o.writes ELSE s.nid,
              resp |-> Append(s.resp, o.resp)]

\* successful writers of field f of record k, by position in applied
Writers(k, f) ==
    {j \in 1..Len(applied) :
        LET q == reqs[applied[j]]
        IN  /\ q.resp.status = 200
            /\ \/ q.op = "create" /\ q.resp.body.announcement._id = OidStr(k)
               \/ /\ q.op = "update" /\ ObjectId(q.req.announcement_id) = k
                  /\ q.req.announcement[f] # None}

\* the deletes of identifier id that succeeded
Winners(id) ==
    {j \in Done : /\ reqs[j].op = "delete" /\ reqs[j].req.announcement_id = id
                  /\ reqs[j].resp.status = 200}

\* C10: every request makes at most one store mutation and the collection is
\* the one a sequential run of the same requests leaves: each field holds the
\* value of the update applied last, of the deletes of one record exactly one
\* succeeds and the others get 404, and an update racing with a delete does
\* not bring the record back.
C10_Serializable ==
    /\ \A i \in 1..Len(reqs) : reqs[i].writes <= 1
    /\ LET run == SerialRun(SerialOrder, Len(SerialOrder))
       IN  Pending = {} =>
             /\ run.coll = announcements
             /\ \A n \in 1..Len(SerialOrder) : run.resp[n] = reqs[SerialOrder[n]].resp
    /\ \A k \in DOMAIN announcements : \A f \in Fields :
         /\ Writers(k, f) # {}
         /\ LET j == CHOOSE x \in Writers(k, f) : \A y \in Writers(k, f) : y <= x
                q == reqs[applied[j]]
            IN  announcements[k][f] = q.req.announcement[f]
    /\ \A i \in Done :
         ( /\ reqs[i].op = "delete" /\ reqs[i].existed
           /\ Authenticated(reqs[i].req) /\ reqs[i].req.fails = "none" )
           => /\ Cardinality(Winners(reqs[i].req.announcement_id)) = 1
              /\ reqs[i].resp.status = IF i \in Winners(reqs[i].req.announcement_id)
                                       THEN 200 ELSE 404
    /\ \A k \in deleted : k \notin DOMAIN announcements

\* two deletes raced on an existing record, both arriving while it was there:
\* one succeeded and the other got 404
C10_Witness ==
    /\ Pending = {}
    /\ \E i, j \in Done :
        /\ reqs[i].op = "delete" /\ reqs[j].op = "delete"
        /\ reqs[i].existed /\ reqs[j].existed
        /\ reqs[i].resp.status = 200 /\ reqs[j].resp.status = 404

====
